---- MODULE Spec2Model ----
(***************************************************************************)
(* Model of the 7Bot host library (Python_examples/lib/Arm7Bot.py):        *)
(*   - the socket transport: the foreground caller, the background         *)
(*     connection thread(s) and the device at the other end of the socket; *)
(*   - the serial codec: writeSerial, readSerial and CRC16_MODBUS.         *)
(***************************************************************************)
EXTENDS Integers, Sequences, FiniteSets, TLC

(***************************************************************************)
(* Bounds of the model.                                                    *)
(***************************************************************************)
\* number of socket commands the caller issues
MaxReq == 2
\* number of switch_protocol and teardown calls the caller makes
MaxSwitch == 1
\* largest max_retries given to readAnglesFb
MaxRetries == 3
\* number of unsolicited pushes the device sends
MaxPush == 1
\* length of the payload of a serial frame
MaxLen == 2
\* largest max_header_attempts given to readSerial besides the default
MaxAttempts == 3
\* number of bytes in the input buffer of the port before the frame
MaxGarbage == 2

\* every thread is started by __init__ or by a switch_protocol call
Threads == 1..(MaxSwitch + 1)

(***************************************************************************)
(* Socket transport: state.                                                *)
(***************************************************************************)
VARIABLES
    protocol,        \* self.protocol
    ser,             \* self.ser: "none", "open", "closed"
    ws_connected,    \* self.ws_connected
    websocket,       \* self.websocket: 0 (None) or the thread whose connection it is
    response_queue,  \* self.response_queue
    ws_thread,       \* self.ws_thread: 0 (None) or a thread id
    stop_event,      \* self.stop_event: the id of the current Event object
    events_set,      \* the Event objects on which set() was called
    event_loop,      \* self.event_loop: 0 (None) or the thread that owns the loop
    tpc,             \* position of each background thread
    conn,            \* the connection of each thread: "open" or "closed"
    chan,            \* messages in flight from the device on each connection
    pending,         \* requests the device received and has not answered
    fpc,             \* position of the foreground caller
    call,            \* the foreground call in progress (switch_protocol / teardown)
    cur,             \* the socket command in progress
    result,          \* outcome of the last foreground operation
    reqno,           \* number of socket commands issued so far
    nswitch,         \* number of switch_protocol and teardown calls so far
    npush,           \* number of unsolicited pushes sent so far
    other            \* a second caller on the instance: position, command, outcome

wsvars == <<protocol, ser, ws_connected, websocket, response_queue, ws_thread,
            stop_event, events_set, event_loop, tpc, conn, chan, pending,
            fpc, call, cur, result, reqno, nswitch, npush, other>>

(***************************************************************************)
(* Serial transport: state.                                                *)
(***************************************************************************)
VARIABLES
    in_buf,          \* what the port will deliver to self.ser.read, in order
    stale,           \* what the input buffer of the port held before the write
    fed,             \* the last byte the line delivered to the port, -1 for none
    reply,           \* the list (type, address, length, payload) the arm framed last
    attempt,         \* the loop variable of readAnglesFb
    out_buf,         \* bytes handed to self.ser.write
    wdata,           \* the list given to writeSerial: type, address, length, payload
    max_header_attempts, \* the parameter of readSerial
    cnt,             \* the local cnt of readSerial
    turns,           \* of the scan of readSerial: loop turns made, reads timed out
    spc,             \* position of the serial caller
    sres             \* outcome of readSerial

servars == <<in_buf, stale, fed, reply, attempt, out_buf, wdata, max_header_attempts, cnt, turns, spc, sres>>

\* the serial state but for the position of the caller
servars_but_spc == <<in_buf, stale, fed, reply, attempt, out_buf, wdata, max_header_attempts, cnt, turns, sres>>

vars == <<wsvars, servars>>

PROTOCOL_SERIAL == "serial"
PROTOCOL_WEBSOCKET == "websocket"

\* the verbs of the socket protocol, one per {"cmd": ...} the library builds
Verbs == {"read", "write", "status", "vacuum", "speed", "angle", "angles",
          "IK5", "IK6", "IK7", "ping"}

\* what a device message can carry
Bodies == {"data", "nonjson"}

NoMsg == [req |-> -1, body |-> "none"]
NoCall == [op |-> "none", p |-> "none", port |-> FALSE]
NoCmd == [req |-> 0, verb |-> "none"]
NoResult == [kind |-> "none", val |-> "none", msg |-> NoMsg]
\* a second caller that is not in a call
NoOther == [fpc |-> "idle", cur |-> NoCmd, result |-> NoResult]

\* a thread that was started and has not left _websocket_thread
Alive(t) == tpc[t] \notin {"unborn", "done"}

\* self.stop_event.is_set(), as the threads read it: always the current Event
StopIsSet == stop_event \in events_set

(***************************************************************************)
(* Pure helpers of the socket request path.                                *)
(***************************************************************************)
\* a slip in _is_read_command: ping is taken for a command that has a reply
IsReadCommandPingWaits(data) == data.verb \in {"read", "ping"}

\* _is_read_command: data.get("cmd") == "read"
IsReadCommand(data) == data.verb = "read"

\* lines 214-219 of _send_websocket_command: what the caller of a read gets
\* for a message body (json.loads, or {"status": text} when it is not JSON)
\* and for an expired wait ({"status": "WebSocket response timeout"})
DecodeResponse(body) ==
    IF body = "data" THEN "dict_data" ELSE "dict_status_text"

TimeoutResponse == "dict_status_text"

\* _readReg_websocket: a dict with "data" gives the list of integers; a
\* "status" text that is neither a list, nor comma separated, nor an integer
\* raises ValueError inside, which is caught, and [] is returned
ReadRegWebsocket(response) ==
    IF response = "dict_data" THEN "values" ELSE "empty"

\* forget what the device still owed on a connection that is gone
DropConn(t) == {r \in pending : r.conn # t}

(***************************************************************************)
(* The background thread: _websocket_thread and _websocket_client.         *)
(***************************************************************************)
\* a slip in the except clause: the error ends the loop instead of backing off
AfterFailureGivesUp == IF StopIsSet THEN "loop" ELSE "done"

\* where the outer except clause (lines 172-178) leaves the thread
AfterFailure == IF StopIsSet THEN "loop" ELSE "backoff"

\* lines 118-121: the thread installs its event loop
ThStart(t) ==
    /\ tpc[t] = "start"
    /\ event_loop' = t
    /\ tpc' = [tpc EXCEPT ![t] = "loop"]
    /\ UNCHANGED <<servars, other, protocol, ser, ws_connected, websocket, response_queue,
                   ws_thread, stop_event, events_set, conn, chan, pending,
                   fpc, call, cur, result, reqno, nswitch, npush>>

\* line 133: while not self.stop_event.is_set(); on exit the loop is closed
ThLoopCheck(t) ==
    /\ tpc[t] = "loop"
    /\ tpc' = [tpc EXCEPT ![t] = IF StopIsSet THEN "done" ELSE "connecting"]
    /\ UNCHANGED <<servars, other, protocol, ser, ws_connected, websocket, response_queue,
                   ws_thread, stop_event, events_set, event_loop, conn, chan,
                   pending, fpc, call, cur, result, reqno, nswitch, npush>>

\* lines 138-148: the handshake succeeds
ThConnectOk(t) ==
    /\ tpc[t] = "connecting"
    /\ conn' = [conn EXCEPT ![t] = "open"]
    /\ chan' = [chan EXCEPT ![t] = <<>>]
    /\ pending' = DropConn(t)
    /\ websocket' = t
    /\ ws_connected' = TRUE
    /\ tpc' = [tpc EXCEPT ![t] = "listen"]
    /\ UNCHANGED <<servars, other, protocol, ser, response_queue, ws_thread, stop_event,
                   events_set, event_loop, fpc, call, cur, result, reqno, nswitch, npush>>

\* lines 138-143 raise, lines 172-178 handle
ThConnectFail(t) ==
    /\ tpc[t] = "connecting"
    /\ ws_connected' = FALSE
    /\ tpc' = [tpc EXCEPT ![t] = AfterFailure]
    /\ UNCHANGED <<servars, other, protocol, ser, websocket, response_queue, ws_thread,
                   stop_event, events_set, event_loop, conn, chan, pending,
                   fpc, call, cur, result, reqno, nswitch, npush>>

\* line 151: while not self.stop_event.is_set(); leaving the loop leaves the
\* async with block, which closes the connection
ThListenCheck(t) ==
    /\ tpc[t] = "listen"
    /\ IF StopIsSet
         THEN /\ tpc' = [tpc EXCEPT ![t] = "loop"]
              /\ conn' = [conn EXCEPT ![t] = "closed"]
              /\ chan' = [chan EXCEPT ![t] = <<>>]
              /\ pending' = DropConn(t)
         ELSE /\ tpc' = [tpc EXCEPT ![t] = "recv"]
              /\ UNCHANGED <<conn, chan, pending>>
    /\ UNCHANGED <<servars, other, protocol, ser, ws_connected, websocket, response_queue,
                   ws_thread, stop_event, events_set, event_loop, fpc, call,
                   cur, result, reqno, nswitch, npush>>

\* lines 153-162: a message arrives and is put on the response queue
ThRecvMsg(t) ==
    /\ tpc[t] = "recv"
    /\ conn[t] = "open"
    /\ chan[t] # <<>>
    /\ response_queue' = Append(response_queue, Head(chan[t]))
    /\ chan' = [chan EXCEPT ![t] = Tail(chan[t])]
    /\ tpc' = [tpc EXCEPT ![t] = "listen"]
    /\ UNCHANGED <<servars, other, protocol, ser, ws_connected, websocket, ws_thread,
                   stop_event, events_set, event_loop, conn, pending, fpc,
                   call, cur, result, reqno, nswitch, npush>>

\* lines 164-166: asyncio.TimeoutError, continue
ThRecvTimeout(t) ==
    /\ tpc[t] = "recv"
    /\ conn[t] = "open"
    /\ chan[t] = <<>>
    /\ tpc' = [tpc EXCEPT ![t] = "listen"]
    /\ UNCHANGED <<servars, other, protocol, ser, ws_connected, websocket, response_queue,
                   ws_thread, stop_event, events_set, event_loop, conn, chan,
                   pending, fpc, call, cur, result, reqno, nswitch, npush>>

\* lines 167-170: the peer has closed the connection or the link dropped,
\* recv raises ConnectionClosed once what had arrived is read, break; the
\* async with block is left without an exception, so line 175 is not run
ThRecvClosed(t) ==
    /\ tpc[t] = "recv"
    /\ conn[t] = "open"
    /\ chan[t] = <<>>
    /\ conn' = [conn EXCEPT ![t] = "closed"]
    /\ pending' = DropConn(t)
    /\ tpc' = [tpc EXCEPT ![t] = "loop"]
    /\ UNCHANGED <<servars, other, protocol, ser, ws_connected, websocket, response_queue,
                   ws_thread, stop_event, events_set, event_loop, chan,
                   fpc, call, cur, result, reqno, nswitch, npush>>

\* lines 153-156 raise something else, lines 172-178 handle
ThRecvError(t) ==
    /\ tpc[t] = "recv"
    /\ conn' = [conn EXCEPT ![t] = "closed"]
    /\ chan' = [chan EXCEPT ![t] = <<>>]
    /\ pending' = DropConn(t)
    /\ ws_connected' = FALSE
    /\ tpc' = [tpc EXCEPT ![t] = AfterFailure]
    /\ UNCHANGED <<servars, other, protocol, ser, websocket, response_queue, ws_thread,
                   stop_event, events_set, event_loop, fpc, call, cur,
                   result, reqno, nswitch, npush>>

\* line 178: await asyncio.sleep(2) is over
ThBackoffDone(t) ==
    /\ tpc[t] = "backoff"
    /\ tpc' = [tpc EXCEPT ![t] = "loop"]
    /\ UNCHANGED <<servars, other, protocol, ser, ws_connected, websocket, response_queue,
                   ws_thread, stop_event, events_set, event_loop, conn, chan,
                   pending, fpc, call, cur, result, reqno, nswitch, npush>>

ThreadStep(t) ==
    \/ ThStart(t) \/ ThLoopCheck(t) \/ ThConnectOk(t) \/ ThConnectFail(t)
    \/ ThListenCheck(t) \/ ThRecvMsg(t) \/ ThRecvTimeout(t)
    \/ ThRecvClosed(t) \/ ThRecvError(t) \/ ThBackoffDone(t)

(***************************************************************************)
(* The device and the network.                                             *)
(***************************************************************************)
\* the device answers a request it received (a read, or a write/action verb)
DeviceReply(r, b) ==
    /\ r \in pending
    /\ conn[r.conn] = "open"
    /\ chan' = [chan EXCEPT ![r.conn] = Append(@, [req |-> r.req, body |-> b])]
    /\ pending' = pending \ {r}
    /\ UNCHANGED <<servars, other, protocol, ser, ws_connected, websocket,
                   response_queue, ws_thread, stop_event, events_set,
                   event_loop, tpc, conn, fpc, call, cur, result, reqno, nswitch, npush>>

\* the device sends an unsolicited push (feedback)
DevicePush(t, b) ==
    /\ conn[t] = "open"
    /\ npush < MaxPush
    /\ npush' = npush + 1
    /\ chan' = [chan EXCEPT ![t] = Append(@, [req |-> 0, body |-> b])]
    /\ UNCHANGED <<servars, other, protocol, ser, ws_connected, websocket,
                   response_queue, ws_thread, stop_event, events_set,
                   event_loop, tpc, conn, pending, fpc, call, cur, result,
                   reqno, nswitch>>

(***************************************************************************)
(* The foreground caller.                                                  *)
(***************************************************************************)
\* _connect_websocket, lines 102-107: a new Event, a new Thread, started
StartConnection ==
    /\ ws_connected' = FALSE
    /\ stop_event' = stop_event + 1
    /\ ws_thread' = stop_event + 1
    /\ tpc' = [tpc EXCEPT ![stop_event + 1] = "start"]
    /\ fpc' = "wait_conn"
    /\ call' = [op |-> "switch", p |-> PROTOCOL_WEBSOCKET, port |-> FALSE]

\* _connect_websocket, lines 110-113: the poll sees ws_connected
ConnectWaitOk ==
    /\ fpc = "wait_conn"
    /\ ws_connected
    /\ fpc' = "idle"
    /\ call' = NoCall
    /\ result' = [NoResult EXCEPT !.kind = "return"]
    /\ UNCHANGED <<servars, other, protocol, ser, ws_connected, websocket,
                   response_queue, ws_thread, stop_event, events_set,
                   event_loop, tpc, conn, chan, pending, cur, reqno, nswitch, npush>>

\* _connect_websocket, lines 110-116: the 50 polls pass, ConnectionError;
\* raised out of __init__ the instance is never handed to the caller
ConnectWaitFail ==
    /\ fpc = "wait_conn"
    /\ ~ws_connected
    /\ fpc' = IF call.op = "init" THEN "unbuilt" ELSE "idle"
    /\ call' = NoCall
    /\ result' = [NoResult EXCEPT !.kind = "ConnectionError"]
    /\ UNCHANGED <<servars, other, protocol, ser, ws_connected, websocket,
                   response_queue, ws_thread, stop_event, events_set,
                   event_loop, tpc, conn, chan, pending, cur, reqno, nswitch, npush>>

\* switch_protocol, lines 246-258, once the old transport is closed;
\* closedSer and wsc are self.ser and self.ws_connected as the close left them
SetupProtocol(p, port, closedSer, wsc) ==
    /\ protocol' = p
    /\ IF p = PROTOCOL_SERIAL
         THEN /\ ser' = IF port THEN "open" ELSE closedSer
              /\ result' = [NoResult EXCEPT !.kind =
                               IF port THEN "return" ELSE "ValueError"]
              /\ ws_connected' = wsc
              /\ fpc' = "idle"
              /\ call' = NoCall
              /\ UNCHANGED <<stop_event, ws_thread, tpc>>
         ELSE /\ StartConnection
              /\ ser' = closedSer
              /\ UNCHANGED result

\* switch_protocol, lines 237-258, up to the join of _disconnect_websocket
SwitchProtocol(p, port) ==
    /\ fpc = "idle"
    /\ nswitch < MaxSwitch
    /\ nswitch' = nswitch + 1
    /\ IF p \notin {PROTOCOL_SERIAL, PROTOCOL_WEBSOCKET}
         THEN /\ result' = [NoResult EXCEPT !.kind = "ValueError"]
              /\ UNCHANGED <<protocol, ser, ws_connected, websocket, ws_thread,
                             stop_event, events_set, tpc, fpc, call>>
         ELSE IF protocol = PROTOCOL_SERIAL
           THEN /\ SetupProtocol(p, port,
                                 IF ser = "open" THEN "closed" ELSE ser,
                                 ws_connected)
                /\ UNCHANGED <<websocket, events_set>>
           ELSE /\ events_set' = events_set \cup {stop_event}
                /\ fpc' = "joining"
                /\ call' = [op |-> "switch", p |-> p, port |-> port]
                /\ UNCHANGED <<protocol, ser, ws_connected, websocket,
                               ws_thread, stop_event, tpc, result>>
    /\ UNCHANGED <<servars, other, response_queue, event_loop, conn, chan, pending,
                   cur, reqno, npush>>

\* teardown: _disconnect_websocket, lines 265-266, called by __del__ or directly
Teardown ==
    /\ fpc = "idle"
    /\ protocol = PROTOCOL_WEBSOCKET
    /\ nswitch < MaxSwitch
    /\ nswitch' = nswitch + 1
    /\ events_set' = events_set \cup {stop_event}
    /\ fpc' = "joining"
    /\ call' = [op |-> "teardown", p |-> "none", port |-> FALSE]
    /\ UNCHANGED <<servars, other, protocol, ser, ws_connected, websocket,
                   response_queue, ws_thread, stop_event, event_loop, tpc,
                   conn, chan, pending, cur, result, reqno, npush>>

\* _disconnect_websocket, lines 268-272, and what switch_protocol does next
AfterJoin ==
    /\ websocket' = 0
    /\ IF call.op = "teardown"
         THEN /\ ws_connected' = FALSE
              /\ fpc' = "idle"
              /\ call' = NoCall
              /\ result' = [NoResult EXCEPT !.kind = "return"]
              /\ UNCHANGED <<protocol, ser, stop_event, ws_thread, tpc>>
         ELSE SetupProtocol(call.p, call.port, ser, FALSE)
    /\ UNCHANGED <<servars, other, response_queue, events_set, event_loop, conn,
                   chan, pending, cur, reqno, nswitch, npush>>

\* self.ws_thread.join(timeout=2) returns because the thread has ended
JoinDone ==
    /\ fpc = "joining"
    /\ tpc[ws_thread] = "done"
    /\ AfterJoin

\* self.ws_thread.join(timeout=2) returns because the two seconds are over
JoinTimeout ==
    /\ fpc = "joining"
    /\ tpc[ws_thread] # "done"
    /\ AfterJoin

\* a lock around the exchange: a caller enters only when no other is inside
ExchangeFreeUnderLock(busy) == ~busy

\* _send_websocket_command, lines 180-183: the function takes no lock, and a
\* caller enters it whether or not another caller is inside (busy)
ExchangeFree(busy) == TRUE

\* _send_websocket_command, lines 182-194: the connection check and the purge
SendBegin(verb) ==
    /\ fpc = "idle"
    /\ ExchangeFree(other.fpc \in {"sending", "waiting"})
    /\ protocol = PROTOCOL_WEBSOCKET
    /\ reqno < MaxReq
    /\ reqno' = reqno + 1
    /\ IF ~ws_connected \/ websocket = 0
         THEN /\ result' = [NoResult EXCEPT !.kind = "ConnectionError"]
              /\ UNCHANGED <<response_queue, fpc, cur>>
         ELSE /\ response_queue' = <<>>
              /\ cur' = [req |-> reqno + 1, verb |-> verb]
              /\ fpc' = "sending"
              /\ result' = NoResult
    /\ UNCHANGED <<servars, other, protocol, ser, ws_connected, websocket, ws_thread,
                   stop_event, events_set, event_loop, tpc, conn, chan,
                   pending, call, nswitch, npush>>

\* lines 197-203 succeed: the message is on the wire; lines 208-222 decide
\* whether the caller waits
SendOk ==
    /\ fpc = "sending"
    /\ event_loop # 0 /\ tpc[event_loop] # "done"
    /\ websocket # 0 /\ conn[websocket] = "open"
    /\ pending' = pending \cup {[req |-> cur.req, conn |-> websocket]}
    /\ IF IsReadCommand(cur)
         THEN /\ fpc' = "waiting"
              /\ UNCHANGED <<cur, result>>
         ELSE /\ fpc' = "idle"
              /\ cur' = NoCmd
              /\ result' = [NoResult EXCEPT !.kind = "return", !.val = "Command Sent"]
    /\ UNCHANGED <<servars, other, protocol, ser, ws_connected, websocket,
                   response_queue, ws_thread, stop_event, events_set,
                   event_loop, tpc, conn, chan, call, reqno, nswitch, npush>>

\* lines 202-205: the send raises or does not finish within the timeout
SendFail ==
    /\ fpc = "sending"
    /\ event_loop # 0 /\ tpc[event_loop] # "done"
    /\ fpc' = "idle"
    /\ cur' = NoCmd
    /\ result' = [NoResult EXCEPT !.kind = "ConnectionError"]
    /\ UNCHANGED <<servars, other, protocol, ser, ws_connected, websocket,
                   response_queue, ws_thread, stop_event, events_set,
                   event_loop, tpc, conn, chan, pending, call, reqno, nswitch, npush>>

\* lines 197-200, outside the try of line 202: the loop of self.event_loop was
\* closed by line 129, and run_coroutine_threadsafe raises RuntimeError
SendLoopClosed ==
    /\ fpc = "sending"
    /\ event_loop # 0 /\ tpc[event_loop] = "done"
    /\ fpc' = "idle"
    /\ cur' = NoCmd
    /\ result' = [NoResult EXCEPT !.kind = "RuntimeError"]
    /\ UNCHANGED <<servars, other, protocol, ser, ws_connected, websocket,
                   response_queue, ws_thread, stop_event, events_set,
                   event_loop, tpc, conn, chan, pending, call, reqno, nswitch, npush>>

\* lines 210-217, then _readReg_websocket: a message is in the queue
RecvResponse ==
    /\ fpc = "waiting"
    /\ response_queue # <<>>
    /\ response_queue' = Tail(response_queue)
    /\ fpc' = "idle"
    /\ cur' = NoCmd
    /\ result' = [kind |-> "return",
                  val |-> ReadRegWebsocket(DecodeResponse(Head(response_queue).body)),
                  msg |-> Head(response_queue)]
    /\ UNCHANGED <<servars, other, protocol, ser, ws_connected, websocket, ws_thread,
                   stop_event, events_set, event_loop, tpc, conn, chan,
                   pending, call, reqno, nswitch, npush>>

\* lines 218-219, then _readReg_websocket: queue.Empty after self.timeout
RecvTimeout ==
    /\ fpc = "waiting"
    /\ response_queue = <<>>
    /\ fpc' = "idle"
    /\ cur' = NoCmd
    /\ result' = [kind |-> "return",
                  val |-> ReadRegWebsocket(TimeoutResponse), msg |-> NoMsg]
    /\ UNCHANGED <<servars, other, protocol, ser, ws_connected, websocket,
                   response_queue, ws_thread, stop_event, events_set,
                   event_loop, tpc, conn, chan, pending, call, reqno, nswitch, npush>>

(***************************************************************************)
(* Serial codec: CRC16_MODBUS, writeSerial, readSerial.                    *)
(***************************************************************************)
\* max_header_attempts=50, the default every caller of readSerial uses
DefaultHeaderAttempts == 50

NoPack == [kind |-> "none", pack |-> <<>>]

\* readSerial, line 696: the scan has not made a turn
NoTurns == [loop |-> 0, empty |-> 0]

\* the serial side of an instance that does no serial traffic
SerialIdle ==
    /\ in_buf = <<>>
    /\ stale = <<>>
    /\ fed = -1
    /\ turns = NoTurns
    /\ reply = <<>>
    /\ attempt = 0
    /\ out_buf = <<>>
    /\ wdata = <<>>
    /\ max_header_attempts = DefaultHeaderAttempts
    /\ cnt = 0
    /\ spc = "off"
    /\ sres = NoPack

\* a ^ b on non-negative integers
RECURSIVE BitXor(_, _)
BitXor(a, b) ==
    IF a = 0 THEN b
    ELSE IF b = 0 THEN a
    ELSE 2 * BitXor(a \div 2, b \div 2) + (((a % 2) + (b % 2)) % 2)

\* a slip in CRC16_MODBUS: the polynomial of the unreflected CRC-16, 0x8005
RECURSIVE CrcRoundsWrongPolynomial(_, _)
CrcRoundsWrongPolynomial(crc, i) ==
    IF i = 0 THEN crc
    ELSE IF crc % 2 # 0
      THEN CrcRoundsWrongPolynomial(BitXor(crc \div 2, 32773), i - 1)
      ELSE CrcRoundsWrongPolynomial(crc \div 2, i - 1)

\* CRC16_MODBUS, lines 755-760: for i in range(8), shift and conditional XOR
RECURSIVE CrcRounds(_, _)
CrcRounds(crc, i) ==
    IF i = 0 THEN crc
    ELSE IF crc % 2 # 0
      THEN CrcRounds(BitXor(crc \div 2, 40961), i - 1)
      ELSE CrcRounds(crc \div 2, i - 1)

\* CRC16_MODBUS, lines 753-760: for pos in data
RECURSIVE CrcFold(_, _)
CrcFold(crc, data) ==
    IF data = <<>> THEN crc
    ELSE CrcFold(CrcRounds(BitXor(crc, Head(data)), 8), Tail(data))

\* CRC16_MODBUS
CRC16_MODBUS(data) == CrcFold(65535, data)

\* writeSerial, lines 728-732, with the two checksum bytes the other way round
WriteSerialBytesCrcSwapped(data) ==
    LET buf == <<170, 119>> \o data
        crc == CRC16_MODBUS(buf)
    IN  buf \o <<(crc \div 256) % 256, crc % 256>>

\* writeSerial, lines 728-732: the bytes of the frame
WriteSerialBytes(data) ==
    LET buf == <<170, 119>> \o data
        crc == CRC16_MODBUS(buf)
    IN  buf \o <<crc % 256, (crc \div 256) % 256>>

\* the bytes self.ser.read(n) returns: up to n, fewer when the line falls
\* silent for the read timeout of the port
RECURSIVE TakeBytes(_, _)
TakeBytes(buf, n) ==
    IF n = 0 \/ buf = <<>> THEN <<>>
    ELSE <<Head(buf)>> \o TakeBytes(Tail(buf), n - 1)

\* self.ser.read(n): the bytes returned and what is left for later reads
SerRead(buf, n) ==
    LET d == TakeBytes(buf, n)
    IN  [data |-> d, rest |-> SubSeq(buf, Len(d) + 1, Len(buf))]

\* readSerial, lines 713-721: the frame after the sync bytes
ReadFrame(buf) ==
    LET h == SerRead(buf, 3) IN
    IF Len(h.data) < 3
      THEN [kind |-> "IndexError", pack |-> <<>>, rest |-> h.rest]
      ELSE
        LET b == SerRead(h.rest, h.data[3] + 2)
            ret == <<170, 119>> \o h.data \o b.data
            n == Len(ret)
            crc == CRC16_MODBUS(SubSeq(ret, 1, n - 2))
        IN  IF crc % 256 = ret[n - 1] /\ (crc \div 256) % 256 = ret[n]
              THEN [kind |-> "ok", pack |-> SubSeq(ret, 3, n - 2), rest |-> b.rest]
              ELSE [kind |-> "SerialException", pack |-> <<>>, rest |-> b.rest]

\* a header strip that takes a frame of any type for the answer
StripHeaderAnyType(ret_pack, type) ==
    [kind |-> "ok", data |-> SubSeq(ret_pack, 4, Len(ret_pack))]

\* a slip in the header strip: only the address is dropped after the type
StripHeaderKeepsLength(ret_pack, type) ==
    IF Head(ret_pack) # type
      THEN [kind |-> "SerialException", data |-> <<>>]
      ELSE [kind |-> "ok", data |-> SubSeq(ret_pack, 3, Len(ret_pack))]

\* _readReg_serial, lines 299-301, and readAnglesFb, lines 363-367: the type
\* the caller expects is popped and compared, address and length are dropped
StripHeader(ret_pack, type) ==
    IF Head(ret_pack) # type
      THEN [kind |-> "SerialException", data |-> <<>>]
      ELSE [kind |-> "ok", data |-> SubSeq(ret_pack, 4, Len(ret_pack))]

\* writeSerial: the frame goes out on the port
WriteSerial ==
    /\ spc = "write"
    /\ out_buf' = out_buf \o WriteSerialBytes(wdata)
    /\ spc' = "wire"
    /\ UNCHANGED <<wsvars, in_buf, stale, fed, reply, attempt, wdata,
                   max_header_attempts, cnt, sres, turns>>

\* the bytes written come back on the line, behind what the input buffer
\* of the port already holds; readSerial is called
Loopback ==
    /\ spc = "wire"
    /\ in_buf' = in_buf \o out_buf
    /\ out_buf' = <<>>
    /\ cnt' = 0
    /\ turns' = NoTurns
    /\ spc' = "scan"
    /\ UNCHANGED <<wsvars, stale, fed, reply, attempt, wdata, max_header_attempts, sres>>

\* a slip in the scan: a byte that follows 0xAA and is not 0x77 is not counted
CountAfterHeadSkipped(c) == c

\* readSerial, line 708, reached from line 702 when the byte after 0xAA is
\* not 0x77: the turn is counted
CountAfterHead(c) == c + 1

\* readSerial, lines 698-710: one turn of the loop that looks for the head
ScanTurn ==
    /\ spc = "scan"
    /\ LET r1 == SerRead(in_buf, 1)
           r2 == SerRead(r1.rest, 1)
       IN  /\ IF r1.data = <<170>>
                THEN /\ in_buf' = r2.rest
                     /\ IF r2.data = <<119>>
                          THEN /\ spc' = "body"
                               /\ UNCHANGED <<cnt, sres>>
                          ELSE /\ cnt' = CountAfterHead(cnt)
                               /\ IF CountAfterHead(cnt) >= max_header_attempts * 2
                                    THEN /\ spc' = "done"
                                         /\ sres' = [kind |-> "SerialTimeoutException",
                                                     pack |-> <<>>]
                                    ELSE UNCHANGED <<spc, sres>>
              ELSE IF r1.data = <<>>
                THEN /\ in_buf' = r1.rest
                     /\ IF cnt + 1 >= max_header_attempts
                             \/ cnt + 2 >= max_header_attempts * 2
                          THEN /\ spc' = "done"
                               /\ cnt' = IF cnt + 1 >= max_header_attempts
                                           THEN cnt + 1 ELSE cnt + 2
                               /\ sres' = [kind |-> "SerialTimeoutException",
                                           pack |-> <<>>]
                          ELSE /\ cnt' = cnt + 2
                               /\ UNCHANGED <<spc, sres>>
                ELSE /\ in_buf' = r1.rest
                     /\ cnt' = cnt + 1
                     /\ IF cnt + 1 >= max_header_attempts * 2
                          THEN /\ spc' = "done"
                               /\ sres' = [kind |-> "SerialTimeoutException",
                                           pack |-> <<>>]
                          ELSE UNCHANGED <<spc, sres>>
    /\ UNCHANGED <<wsvars, stale, fed, reply, attempt, out_buf, wdata,
                   max_header_attempts>>

\* readSerial, lines 698-710: a turn of the scan
ScanStep == ScanTurn /\ UNCHANGED turns

\* readSerial, lines 698-710: a turn of the scan, with the turns made and the
\* reads that returned b'' counted since the call
ScanCounted ==
    /\ ScanTurn
    /\ LET r1 == SerRead(in_buf, 1)
           r2 == SerRead(r1.rest, 1)
       IN  turns' = [loop |-> turns.loop + 1,
                     empty |-> IF r1.data = <<>>
                                    \/ (r1.data = <<170>> /\ r2.data = <<>>)
                                 THEN turns.empty + 1 ELSE turns.empty]

\* readSerial, lines 713-721: header, payload, checksum
ReadBody ==
    /\ spc = "body"
    /\ LET f == ReadFrame(in_buf)
       IN  /\ in_buf' = f.rest
           /\ sres' = [kind |-> f.kind, pack |-> f.pack]
    /\ spc' = "done"
    /\ UNCHANGED <<wsvars, stale, fed, reply, attempt, out_buf, wdata,
                   max_header_attempts, cnt, turns>>

(***************************************************************************)
(* The socket transport: an instance built with protocol='websocket', at   *)
(* the wait of _connect_websocket called by __init__ (line 96).            *)
(***************************************************************************)
Init ==
    /\ protocol = PROTOCOL_WEBSOCKET
    /\ ser = "none"
    /\ ws_connected = FALSE
    /\ websocket = 0
    /\ response_queue = <<>>
    /\ ws_thread = 1
    /\ stop_event = 1
    /\ events_set = {}
    /\ event_loop = 0
    /\ tpc = [t \in Threads |-> IF t = 1 THEN "start" ELSE "unborn"]
    /\ conn = [t \in Threads |-> "closed"]
    /\ chan = [t \in Threads |-> <<>>]
    /\ pending = {}
    /\ fpc = "wait_conn"
    /\ call = [op |-> "init", p |-> PROTOCOL_WEBSOCKET, port |-> FALSE]
    /\ cur = NoCmd
    /\ result = NoResult
    /\ reqno = 0
    /\ nswitch = 0
    /\ npush = 0
    /\ other = NoOther
    /\ SerialIdle

Next ==
    \/ \E t \in Threads : ThStart(t)
    \/ \E t \in Threads : ThLoopCheck(t)
    \/ \E t \in Threads : ThConnectOk(t)
    \/ \E t \in Threads : ThConnectFail(t)
    \/ \E t \in Threads : ThListenCheck(t)
    \/ \E t \in Threads : ThRecvMsg(t)
    \/ \E t \in Threads : ThRecvTimeout(t)
    \/ \E t \in Threads : ThRecvClosed(t)
    \/ \E t \in Threads : ThRecvError(t)
    \/ \E t \in Threads : ThBackoffDone(t)
    \/ \E r \in pending, b \in Bodies : DeviceReply(r, b)
    \/ \E t \in Threads, b \in Bodies : DevicePush(t, b)
    \/ ConnectWaitOk
    \/ ConnectWaitFail
    \/ \E p \in {PROTOCOL_SERIAL, PROTOCOL_WEBSOCKET, "bluetooth"},
          port \in BOOLEAN : SwitchProtocol(p, port)
    \/ Teardown
    \/ JoinDone
    \/ JoinTimeout
    \/ \E verb \in Verbs : SendBegin(verb)
    \/ SendOk
    \/ SendFail
    \/ SendLoopClosed
    \/ RecvResponse
    \/ RecvTimeout

Spec == Init /\ [][Next]_vars

(***************************************************************************)
(* The request path on one instance that is never switched or torn down.   *)
(***************************************************************************)
ReqNext ==
    \/ \E t \in Threads : ThStart(t)
    \/ \E t \in Threads : ThLoopCheck(t)
    \/ \E t \in Threads : ThConnectOk(t)
    \/ \E t \in Threads : ThConnectFail(t)
    \/ \E t \in Threads : ThListenCheck(t)
    \/ \E t \in Threads : ThRecvMsg(t)
    \/ \E t \in Threads : ThRecvTimeout(t)
    \/ \E t \in Threads : ThRecvClosed(t)
    \/ \E t \in Threads : ThRecvError(t)
    \/ \E t \in Threads : ThBackoffDone(t)
    \/ \E r \in pending, b \in Bodies : DeviceReply(r, b)
    \/ \E t \in Threads, b \in Bodies : DevicePush(t, b)
    \/ ConnectWaitOk
    \/ ConnectWaitFail
    \/ \E verb \in Verbs : SendBegin(verb)
    \/ SendOk
    \/ SendFail
    \/ RecvResponse
    \/ RecvTimeout

ReqSpec == Init /\ [][ReqNext]_vars

(***************************************************************************)
(* The life of the background threads: construction, protocol switches and *)
(* teardown, with no command issued.  The threads are operating-system     *)
(* threads: each one that can take a step eventually takes one.            *)
(***************************************************************************)
LifeNext ==
    \/ \E t \in Threads : ThStart(t)
    \/ \E t \in Threads : ThLoopCheck(t)
    \/ \E t \in Threads : ThConnectOk(t)
    \/ \E t \in Threads : ThConnectFail(t)
    \/ \E t \in Threads : ThListenCheck(t)
    \/ \E t \in Threads : ThRecvMsg(t)
    \/ \E t \in Threads : ThRecvTimeout(t)
    \/ \E t \in Threads : ThRecvClosed(t)
    \/ \E t \in Threads : ThRecvError(t)
    \/ \E t \in Threads : ThBackoffDone(t)
    \/ \E t \in Threads : DevicePush(t, "data")
    \/ ConnectWaitOk
    \/ ConnectWaitFail
    \/ \E p \in {PROTOCOL_SERIAL, PROTOCOL_WEBSOCKET, "bluetooth"},
          port \in BOOLEAN : SwitchProtocol(p, port)
    \/ Teardown
    \/ JoinDone
    \/ JoinTimeout

LifeSpec ==
    /\ Init
    /\ [][LifeNext]_vars
    /\ \A t \in Threads : WF_vars(ThreadStep(t))

(***************************************************************************)
(* Properties of the socket transport.                                     *)
(***************************************************************************)

\* C1: the message a read returns is never one the device produced for an
\* earlier exchange (result belongs to command number reqno; a message
\* carries the number of the request it answers, 0 for an unsolicited push).
C1_PurgeInvariant ==
    result.msg # NoMsg => ~(result.msg.req # 0 /\ result.msg.req < reqno)

\* C2: at most one background thread is alive in every reachable state.
C2_OneBackgroundTask ==
    Cardinality({t \in Threads : Alive(t)}) <= 1

\* C3: once set() was called on the stop Event created with thread t, thread t
\* eventually leaves its loop with its connection released.
C3_StopTerminates ==
    \A t \in Threads :
        [](t \in events_set /\ Alive(t) => <>(tpc[t] = "done" /\ conn[t] = "closed"))

\* a step of thread t that is a connection failure: the connect attempt or
\* the receive loop is left for the retry path
ConnFailure(t) ==
    /\ tpc[t] \in {"connecting", "recv"}
    /\ tpc'[t] \in {"backoff", "loop"}

\* C4: every connection failure while no stop is raised leaves ws_connected
\* false, and ws_connected only becomes true by a successful handshake.
C4_FailureClearsConnected ==
    /\ [][\A t \in Threads : (~StopIsSet /\ ConnFailure(t)) => ~ws_connected']_vars
    /\ [][(~ws_connected /\ ws_connected') =>
            \E t \in Threads : tpc[t] = "connecting" /\ tpc'[t] = "listen"]_vars

\* C5: a background thread ends only when the stop Event it reads is set;
\* after every failure with no stop raised it connects again; and no step of
\* a thread changes the caller's position or outcome.
C5_RetriesForever ==
    /\ [][\A t \in Threads : (Alive(t) /\ tpc'[t] = "done") => StopIsSet]_vars
    /\ \A t \in Threads :
          [](tpc[t] \in {"backoff", "loop"} /\ ~StopIsSet
                => <>(tpc[t] = "connecting" \/ StopIsSet))
    /\ [][(\E t \in Threads : ThreadStep(t)) => UNCHANGED <<fpc, result>>]_vars

\* C5 witness: a thread waits in the backoff after a failure, no stop raised.
C5_Witness ==
    \E t \in Threads : tpc[t] = "backoff" /\ ~StopIsSet /\ ~ws_connected

\* C6: a read whose wait on the response queue expires ends in TimeoutError.
C6_ReadTimeoutRaises ==
    [][(fpc = "waiting" /\ response_queue = <<>> /\ fpc' = "idle")
          => result'.kind = "TimeoutError"]_vars

\* C7: a command issued while not connected fails with ConnectionError,
\* transmits nothing and leaves the response queue as it was; a command whose
\* transmission fails ends in ConnectionError too.
C7_ConnectionErrors ==
    /\ [][(reqno' # reqno /\ (~ws_connected \/ websocket = 0))
            => /\ result'.kind = "ConnectionError"
               /\ pending' \subseteq pending
               /\ response_queue' = response_queue
               /\ fpc' = "idle"]_vars
    /\ [][(fpc = "sending" /\ fpc' = "idle" /\ pending' \subseteq pending)
            => result'.kind = "ConnectionError"]_vars

\* C8: a transmitted command whose verb is not read returns "Command Sent" at
\* once and leaves the response queue as it is; only the wait of a read
\* takes a message out of the queue once the command is under way.
C8_OnlyReadWaits ==
    /\ [][(fpc = "sending" /\ cur.verb # "read" /\ pending' \ pending # {})
            => /\ fpc' = "idle"
               /\ result'.kind = "return"
               /\ result'.val = "Command Sent"
               /\ response_queue' = response_queue]_vars
    /\ [][(fpc \in {"sending", "waiting"}
             /\ Len(response_queue') < Len(response_queue))
            => (fpc = "waiting" /\ cur.verb = "read")]_vars

\* C8 witness: a non-read command has returned its acknowledgement while a
\* message that arrived after the purge is still in the queue.
C8_Witness ==
    /\ result.val = "Command Sent"
    /\ fpc = "idle"
    /\ response_queue # <<>>

(***************************************************************************)
(* The serial codec: a frame is written and read back from a port whose    *)
(* input buffer may already hold bytes.                                    *)
(***************************************************************************)
\* the sequences over S of length 0..n
SeqsUpTo(S, n) == UNION {[1..k -> S] : k \in 0..n}

\* 0xAA and 0x77 are the sync bytes; 0x03 is also a type and a length
PayloadBytes == {3, 119, 170, 255}
GarbageBytes == {0, 119, 170}
FrameTypes == {3, 4, 5}
Addresses == {0, 170}

\* the socket fields of an instance built with protocol='serial' (lines 81-84)
SocketOff ==
    /\ protocol = PROTOCOL_SERIAL
    /\ ser = "open"
    /\ ws_connected = FALSE
    /\ websocket = 0
    /\ response_queue = <<>>
    /\ ws_thread = 0
    /\ stop_event = 0
    /\ events_set = {}
    /\ event_loop = 0
    /\ tpc = [t \in Threads |-> "unborn"]
    /\ conn = [t \in Threads |-> "closed"]
    /\ chan = [t \in Threads |-> <<>>]
    /\ pending = {}
    /\ fpc = "idle"
    /\ cur = NoCmd
    /\ result = NoResult
    /\ reqno = 0
    /\ nswitch = 0
    /\ npush = 0
    /\ other = NoOther

SerialInit ==
    /\ SocketOff
    /\ call = NoCall
    /\ stale \in SeqsUpTo(GarbageBytes, MaxGarbage)
    /\ in_buf = stale
    /\ fed = -1
    /\ turns = NoTurns
    /\ reply = <<>>
    /\ attempt = 0
    /\ out_buf = <<>>
    /\ \E type \in FrameTypes, addr \in Addresses,
          payload \in SeqsUpTo(PayloadBytes, MaxLen) :
            wdata = <<type, addr, Len(payload)>> \o payload
    /\ max_header_attempts = DefaultHeaderAttempts
    /\ cnt = 0
    /\ spc = "write"
    /\ sres = NoPack

SerialNext ==
    \/ WriteSerial
    \/ Loopback
    \/ ScanStep
    \/ ReadBody

SerialSpec == SerialInit /\ [][SerialNext]_vars

\* the payload in the list given to writeSerial
Payload(data) == SubSeq(data, 4, Len(data))

\* the garbage holds no complete sync sequence 0xAA 0x77
NoSyncIn(garbage) ==
    \A i \in 1..(Len(garbage) - 1) : ~(garbage[i] = 170 /\ garbage[i + 1] = 119)

\* C9: when the decoder is fed the bytes the encoder emitted and nothing
\* else, readSerial succeeds and the header strip of the caller that expects
\* the type of the frame yields the payload that was written.
C9_RoundTrip ==
    (spc = "done" /\ stale = <<>>)
        => /\ sres.kind = "ok"
           /\ StripHeader(sres.pack, wdata[1]) = [kind |-> "ok", data |-> Payload(wdata)]

\* C9 witness: a frame whose payload is the two sync bytes went round.
C9_Witness ==
    /\ spc = "done"
    /\ stale = <<>>
    /\ sres.kind = "ok"
    /\ StripHeader(sres.pack, wdata[1]).data = <<170, 119>>

\* C10: when the bytes ahead of the frame are garbage (they hold no complete
\* sync sequence; they may hold or end in 0xAA), readSerial returns the type,
\* address, length and payload of the frame unchanged.
C10_Resync ==
    (spc = "done" /\ NoSyncIn(stale)) => (sres.kind = "ok" /\ sres.pack = wdata)

(***************************************************************************)
(* The scan of readSerial on a line that never carries the sync sequence:  *)
(* bytes arrive while the scan runs, and a read that finds the buffer      *)
(* empty times out (serial.Serial(..., timeout=0.2), line 84).             *)
(***************************************************************************)
\* the line delivers byte b to the input buffer of the port; b never
\* completes the sequence 0xAA 0x77 with the byte delivered before it
Arrive(b) ==
    /\ spc = "scan"
    /\ Len(in_buf) < MaxGarbage
    /\ ~(fed = 170 /\ b = 119)
    /\ in_buf' = Append(in_buf, b)
    /\ fed' = b
    /\ UNCHANGED <<wsvars, stale, reply, attempt, out_buf, wdata,
                   max_header_attempts, cnt, spc, sres, turns>>

\* readSerial(max_header_attempts) is called on a serial instance whose
\* input buffer is empty
ScanInit ==
    /\ SocketOff
    /\ call = NoCall
    /\ stale = <<>>
    /\ in_buf = <<>>
    /\ fed = -1
    /\ turns = NoTurns
    /\ reply = <<>>
    /\ attempt = 0
    /\ out_buf = <<>>
    /\ wdata = <<>>
    /\ max_header_attempts \in (1..MaxAttempts) \cup {DefaultHeaderAttempts}
    /\ cnt = 0
    /\ spc = "scan"
    /\ sres = NoPack

ScanNext ==
    \/ \E b \in GarbageBytes : Arrive(b)
    \/ ScanStep

\* the scan is the running Python code: it takes its next step
ScanSpec == ScanInit /\ [][ScanNext]_vars /\ WF_vars(ScanStep)

\* C11: on a line that never carries the sync sequence, every turn of the
\* scan loop raises cnt, cnt never passes 2 * max_header_attempts (so the
\* scan makes at most that many turns of at most two reads each), the scan
\* ends, and it ends in SerialTimeoutException.
C11_ScanTerminates ==
    /\ [][spc = "scan" => (cnt' > cnt /\ cnt' <= cnt + 2) \/ UNCHANGED <<cnt, spc>>]_vars
    /\ [](cnt <= 2 * max_header_attempts)
    /\ [](spc # "scan" => (spc = "done" /\ sres.kind = "SerialTimeoutException"))
    /\ <>(spc = "done")

\* C11 witness: the default scan has ended in a timeout after a stream that
\* held 0xAA bytes and pauses of the line
C11_Witness ==
    /\ spc = "done"
    /\ sres.kind = "SerialTimeoutException"
    /\ max_header_attempts = DefaultHeaderAttempts
    /\ fed = 170
    /\ cnt = 2 * DefaultHeaderAttempts

(***************************************************************************)
(* readSerial on a line that delivers a frame, a frame cut short at any    *)
(* byte, or a frame whose last byte was damaged, and then falls silent.    *)
(***************************************************************************)
\* the lists writeSerial is given in the model
Frames ==
    {<<type, addr, Len(payload)>> \o payload :
        type \in FrameTypes, addr \in Addresses,
        payload \in SeqsUpTo(PayloadBytes, MaxLen)}

\* the bytes of frame f with the last one damaged on the line
Damaged(f) == [f EXCEPT ![Len(f)] = (f[Len(f)] + 1) % 256]

\* what the line may deliver for the frame of data
StreamsOf(data) ==
    LET f == WriteSerialBytes(data)
    IN  {SubSeq(f, 1, k) : k \in 0..Len(f)} \cup {Damaged(f)}

\* readSerial() is called; the input buffer holds all the line will deliver
DecodeInit ==
    /\ SocketOff
    /\ call = NoCall
    /\ wdata \in Frames
    /\ stale \in StreamsOf(wdata)
    /\ in_buf = stale
    /\ fed = -1
    /\ turns = NoTurns
    /\ reply = <<>>
    /\ attempt = 0
    /\ out_buf = <<>>
    /\ max_header_attempts = DefaultHeaderAttempts
    /\ cnt = 0
    /\ spc = "scan"
    /\ sres = NoPack

DecodeNext ==
    \/ ScanStep
    \/ ReadBody

DecodeSpec == DecodeInit /\ [][DecodeNext]_vars

\* the checksum recomputed over sync through payload of the bytes ret equals
\* the two bytes that follow the payload
ChecksumAgrees(ret) ==
    /\ Len(ret) = 5 + ret[5] + 2
    /\ LET crc == CRC16_MODBUS(SubSeq(ret, 1, Len(ret) - 2))
       IN  /\ ret[Len(ret) - 1] = crc % 256
           /\ ret[Len(ret)] = (crc \div 256) % 256

\* C12: a decode that fails ends in SerialTimeoutException (the timeout
\* error) or SerialException (the framing error) and in nothing else, also
\* when the line stops after the sync sequence; and the bytes delivered are
\* accepted exactly when they are a whole frame whose checksum agrees.
C12_ErrorOutcomes ==
    spc = "done" =>
        /\ sres.kind \in {"ok", "SerialTimeoutException", "SerialException"}
        /\ sres.kind = "ok" <=> (Len(stale) >= 5 /\ ChecksumAgrees(stale))

(***************************************************************************)
(* The setters over the serial transport: setAngles, setIK6 and setIK7     *)
(* build the register data, _writeReg_serial frames it, writeSerial sends  *)
(* it, and the call returns.                                               *)
(***************************************************************************)
ANGLE_ID == 46
IK_ID == 54
OFFSET_BIAS == 128
COORDINATE_OFFSET == 1024

\* a slip in the IK setters: the low byte is emitted before the high byte
EncodeCoordinateLowFirst(coord) ==
    LET coord_offset == coord + COORDINATE_OFFSET
    IN  <<coord_offset % 256, coord_offset \div 256>>

\* setIK6, lines 574-575: coord_offset >> 8, coord_offset % 256
EncodeCoordinate(coord) ==
    LET coord_offset == coord + COORDINATE_OFFSET
    IN  <<coord_offset \div 256, coord_offset % 256>>

\* setIK6, lines 573-575: for coord in j6, data_ik.extend(...)
RECURSIVE EncodeCoordinates(_)
EncodeCoordinates(j6) ==
    IF j6 = <<>> THEN <<>>
    ELSE EncodeCoordinate(Head(j6)) \o EncodeCoordinates(Tail(j6))

\* setIK6, line 576: vec + OFFSET_BIAS for vec in vec56
EncodeVector(vec) == [i \in 1..Len(vec) |-> vec[i] + OFFSET_BIAS]

\* a slip in _writeReg_serial: the length byte is left out of the header
WriteRegSerialBufNoLength(addr, data) ==
    <<4, addr % 256>> \o [i \in 1..Len(data) |-> data[i] % 256]

\* _writeReg_serial, lines 341-342: [0x04, addr & 0xff, len(data) & 0xff]
\* extended by d & 0xff for d in data
WriteRegSerialBuf(addr, data) ==
    <<4, addr % 256, Len(data) % 256>> \o [i \in 1..Len(data) |-> data[i] % 256]

\* the register address and the register data a setter hands to writeReg
SetterAddr(c) == IF c.op = "setAngles" THEN ANGLE_ID ELSE IK_ID

SetterData(c) ==
    IF c.op = "setAngles" THEN c.p[1]
    ELSE IF c.op = "setIK6"
      THEN EncodeCoordinates(c.p[1]) \o EncodeVector(c.p[2])
      ELSE EncodeCoordinates(c.p[1]) \o EncodeVector(c.p[2]) \o EncodeVector(c.p[3])

SetterOps == {"setAngles", "setIK6", "setIK7"}

\* the inputs of the setters: every coordinate and every vector component of
\* the signed ranges, the poses and targets of the examples
CoordValues == (0 - COORDINATE_OFFSET)..(COORDINATE_OFFSET - 1)
VectorValues == (0 - OFFSET_BIAS)..(OFFSET_BIAS - 1)
EdgeCoords == {0 - COORDINATE_OFFSET, -1, 0, 255, 256, COORDINATE_OFFSET - 1}
AngleLists == {<<50, 80, 50, 50, 50, 50, 40>>, <<90, 90, 90, 90, 90, 90, 90>>}

Targets ==
    {<<c, 185, 50>> : c \in CoordValues}
        \cup {<<-50, c, 50>> : c \in EdgeCoords}
        \cup {<<-50, 185, c>> : c \in EdgeCoords}

Directions ==
    {<<v, 0, -1>> : v \in VectorValues}
        \cup {<<0, v, -1>> : v \in {0 - OFFSET_BIAS, OFFSET_BIAS - 1}}
        \cup {<<0, 0, v>> : v \in {0 - OFFSET_BIAS, OFFSET_BIAS - 1}}

SetterCalls ==
    {[op |-> "setAngles", p |-> <<a>>, port |-> FALSE] : a \in AngleLists}
        \cup {[op |-> "setIK6", p |-> <<j6, <<0, 0, -1>>>>, port |-> FALSE] :
                  j6 \in Targets}
        \cup {[op |-> "setIK6", p |-> <<<<-50, 185, 50>>, vec56>>, port |-> FALSE] :
                  vec56 \in Directions}
        \cup {[op |-> "setIK7", p |-> <<j6, <<0, 0, -1>>, <<1, 0, 0>>>>, port |-> FALSE] :
                  j6 \in Targets}
        \cup {[op |-> "setIK7", p |-> <<<<-50, 185, 50>>, <<0, 0, -1>>, vec67>>,
                port |-> FALSE] : vec67 \in Directions}

\* what the arm puts on the line when it refuses a target; the host code has
\* no reader for it
AlarmFrame == WriteSerialBytes(<<6, IK_ID, 0>>)

\* setAngles / setIK6 / setIK7, serial branch, then _writeReg_serial lines
\* 341-342: the list for writeSerial is built
SetterCall ==
    /\ spc = "call"
    /\ call.op \in SetterOps
    /\ wdata' = WriteRegSerialBuf(SetterAddr(call), SetterData(call))
    /\ spc' = "write"
    /\ UNCHANGED <<wsvars, in_buf, stale, fed, reply, attempt, out_buf,
                   max_header_attempts, cnt, sres, turns>>

\* _writeReg_serial, lines 343-344: writeSerial has returned and nothing is
\* read; the setter returns None
SetterReturn ==
    /\ spc = "wire"
    /\ call.op \in SetterOps
    /\ spc' = "done"
    /\ result' = [kind |-> "return", val |-> "None", msg |-> NoMsg]
    /\ UNCHANGED <<servars_but_spc, other, protocol, ser, ws_connected, websocket,
                   response_queue, ws_thread, stop_event, events_set,
                   event_loop, tpc, conn, chan, pending, fpc, call, cur,
                   reqno, nswitch, npush>>

\* the arm has received an IK frame and answers with its range alarm
DeviceAlarm ==
    /\ spc \in {"wire", "done"}
    /\ call.op \in {"setIK6", "setIK7"}
    /\ out_buf # <<>>
    /\ in_buf = <<>>
    /\ in_buf' = AlarmFrame
    /\ UNCHANGED <<wsvars, stale, fed, reply, attempt, out_buf, wdata,
                   max_header_attempts, cnt, spc, sres, turns>>

SetInit ==
    /\ SocketOff
    /\ call \in SetterCalls
    /\ stale = <<>>
    /\ in_buf = <<>>
    /\ fed = -1
    /\ turns = NoTurns
    /\ reply = <<>>
    /\ attempt = 0
    /\ out_buf = <<>>
    /\ wdata = <<>>
    /\ max_header_attempts = DefaultHeaderAttempts
    /\ cnt = 0
    /\ spc = "call"
    /\ sres = NoPack

SetNext ==
    \/ SetterCall
    \/ WriteSerial
    \/ SetterReturn
    \/ DeviceAlarm

SetSpec == SetInit /\ [][SetNext]_vars

\* C13: when the arm has answered the target [500, 185, 50] of setIK6 with
\* its range alarm, the frame that was sent carries the target unclamped
\* (500 + 1024 = 5 * 256 + 244) and the call has ended in RangeError.
C13_RangeError ==
    (/\ spc = "done"
     /\ call.op = "setIK6" /\ call.p[1] = <<500, 185, 50>>
     /\ in_buf = AlarmFrame)
        => /\ Payload(wdata) = <<5, 244, 4, 185, 4, 50, 128, 128, 127>>
           /\ out_buf = WriteSerialBytes(wdata)
           /\ result.kind = "RangeError"

\* C15: setAngles([50,80,50,50,50,50,40]) over the serial transport has
\* written, when it returns, exactly the one frame AA 77 04 2E 07 50 80 50 50
\* 50 50 40 06 A2 (0xA206 is the MODBUS CRC16 of the first twelve bytes, sent
\* low byte first), and has read nothing.
C15_SetAnglesFrame ==
    (call.op = "setAngles" /\ call.p[1] = <<50, 80, 50, 50, 50, 50, 40>>)
        => /\ out_buf \in {<<>>, <<170, 119, 4, 46, 7, 50, 80, 50, 50, 50, 50, 40, 6, 162>>}
           /\ spc = "done" => out_buf # <<>>
           /\ cnt = 0 /\ sres = NoPack /\ in_buf = <<>>

\* C15 witness: that call has returned after writing.
C15_Witness ==
    /\ spc = "done"
    /\ call.op = "setAngles" /\ call.p[1] = <<50, 80, 50, 50, 50, 50, 40>>
    /\ result.kind = "return"
    /\ Len(out_buf) = 14

\* what the arm makes of the two bytes of a coordinate and of the byte of a
\* vector component
DecodeCoordinate(hi, lo) == hi * 256 + lo - COORDINATE_OFFSET
DecodeVector(b) == b - OFFSET_BIAS

\* the vector components of an IK call, in the order they are emitted
CallVectors(c) == IF c.op = "setIK6" THEN c.p[2] ELSE c.p[2] \o c.p[3]

\* C18: in the frame an IK setter has built, every payload byte is in
\* 0..255, the masking of the write path has changed none of them, the two
\* bytes of each coordinate decode back to the coordinate and the byte of
\* each vector component decodes back to the component.
C18_CoordinateRoundTrip ==
    (spc # "call" /\ call.op \in {"setIK6", "setIK7"})
        => LET sent == Payload(wdata)
               vecs == CallVectors(call)
           IN  /\ sent = SetterData(call)
               /\ Len(sent) = 6 + Len(vecs)
               /\ \A i \in 1..Len(sent) : sent[i] \in 0..255
               /\ \A i \in 1..3 :
                     DecodeCoordinate(sent[2 * i - 1], sent[2 * i]) = call.p[1][i]
               /\ \A k \in 1..Len(vecs) : DecodeVector(sent[6 + k]) = vecs[k]

\* C18 witness: setIK7 was sent with the lowest coordinate and the highest
\* vector component.
C18_Witness ==
    /\ spc = "done"
    /\ call.op = "setIK7"
    /\ \/ call.p[1][1] = 0 - COORDINATE_OFFSET
       \/ call.p[3][1] = OFFSET_BIAS - 1
    /\ Len(Payload(wdata)) = 12

(***************************************************************************)
(* The readers over the serial transport: getID (readReg of one register)  *)
(* and readAnglesFb with its retries.                                      *)
(***************************************************************************)
DEVICE_ID == 11
ANGLE_FEEDBACK_ID == 83

\* _readReg_serial, line 295: [0x03, addr & 0xff, num & 0xff]
ReadRegSerialBuf(addr, num) == <<3, addr % 256, num % 256>>

\* what the arm may answer to the read of the ID register: one byte of any
\* value, or an answer of another type, address or length
IDReplies ==
    {<<3, DEVICE_ID, 1, b>> : b \in 0..255}
        \cup {<<3, ANGLE_FEEDBACK_ID, 1, 9>>, <<5, DEVICE_ID, 1, 7>>,
               <<3, DEVICE_ID, 0>>, <<3, DEVICE_ID, 2, 1, 2>>}

\* the frames the arm may send while angle feedback is on
FbFrames ==
    {<<type, addr, 7>> \o a :
        type \in {5, 3}, addr \in {ANGLE_FEEDBACK_ID, ANGLE_ID}, a \in AngleLists}

ReaderCalls ==
    {[op |-> "getID", p |-> <<>>, port |-> FALSE]}
        \cup {[op |-> "readAnglesFb", p |-> <<n>>, port |-> FALSE] : n \in 0..MaxRetries}

\* getID -> readReg -> _readReg_serial, line 295: the request is built
ReadRegCall ==
    /\ spc = "call"
    /\ call.op = "getID"
    /\ wdata' = ReadRegSerialBuf(DEVICE_ID, 1)
    /\ spc' = "write"
    /\ UNCHANGED <<wsvars, in_buf, stale, fed, reply, attempt, out_buf,
                   max_header_attempts, cnt, sres, turns>>

\* the arm answers the request with the frame of data (none for <<>>), and
\* _readReg_serial calls readSerial (line 298)
DeviceResponse(data) ==
    /\ spc = "wire"
    /\ call.op = "getID"
    /\ reply' = data
    /\ in_buf' = in_buf \o (IF data = <<>> THEN <<>> ELSE WriteSerialBytes(data))
    /\ cnt' = 0
    /\ turns' = NoTurns
    /\ spc' = "scan"
    /\ UNCHANGED <<wsvars, stale, fed, attempt, out_buf, wdata,
                   max_header_attempts, sres>>

\* _readReg_serial, lines 299-301, then getID, line 402: [0] of the list
GetIDReturn ==
    /\ spc = "done"
    /\ call.op = "getID"
    /\ spc' = "ret"
    /\ LET r == StripHeader(sres.pack, 3) IN
       result' =
         IF sres.kind # "ok" THEN [kind |-> sres.kind, val |-> "none", msg |-> NoMsg]
         ELSE IF r.kind # "ok" THEN [kind |-> r.kind, val |-> "none", msg |-> NoMsg]
         ELSE IF r.data = <<>> THEN [kind |-> "IndexError", val |-> "none", msg |-> NoMsg]
         ELSE [kind |-> "return", val |-> r.data[1], msg |-> NoMsg]
    /\ UNCHANGED <<servars_but_spc, other, protocol, ser, ws_connected, websocket,
                   response_queue, ws_thread, stop_event, events_set,
                   event_loop, tpc, conn, chan, pending, fpc, call, cur,
                   reqno, nswitch, npush>>

\* readAnglesFb, line 362: readSerial is called for this attempt; the line
\* delivers stream, all or part of the frame of data, during the attempt
FbAttempt(data, stream) ==
    /\ spc = "feed"
    /\ call.op = "readAnglesFb"
    /\ attempt < call.p[1]
    /\ reply' = data
    /\ in_buf' = in_buf \o stream
    /\ cnt' = 0
    /\ turns' = NoTurns
    /\ sres' = NoPack
    /\ spc' = "scan"
    /\ UNCHANGED <<wsvars, stale, fed, attempt, out_buf, wdata,
                   max_header_attempts>>

\* readAnglesFb, line 360: range(max_retries) is empty, the loop body never
\* runs and the function falls off its end
FbNoAttempt ==
    /\ spc = "feed"
    /\ call.op = "readAnglesFb"
    /\ call.p[1] = 0
    /\ spc' = "ret"
    /\ result' = [kind |-> "return", val |-> "None", msg |-> NoMsg]
    /\ UNCHANGED <<servars_but_spc, other, protocol, ser, ws_connected, websocket,
                   response_queue, ws_thread, stop_event, events_set,
                   event_loop, tpc, conn, chan, pending, fpc, call, cur,
                   reqno, nswitch, npush>>

\* the exception an attempt of readAnglesFb ends in, "none" when the frame
\* is a feedback frame: readSerial's own, or the mismatch of lines 363-366
FbError(r) ==
    IF r.kind # "ok" THEN r.kind
    ELSE IF r.pack[1] # 5 \/ r.pack[2] # ANGLE_FEEDBACK_ID THEN "SerialException"
    ELSE "none"

\* readAnglesFb, lines 363-380: the outcome of the attempt is handled
FbAfterDecode ==
    /\ spc = "done"
    /\ call.op = "readAnglesFb"
    /\ LET e == FbError(sres) IN
       IF e = "none"
         THEN /\ result' = [kind |-> "return",
                            val |-> SubSeq(sres.pack, 4, Len(sres.pack)),
                            msg |-> NoMsg]
              /\ spc' = "ret"
              /\ UNCHANGED attempt
         ELSE IF e \in {"SerialTimeoutException", "SerialException"}
                  /\ attempt < call.p[1] - 1
           THEN /\ attempt' = attempt + 1
                /\ spc' = "feed"
                /\ UNCHANGED result
           ELSE /\ result' = [kind |-> e, val |-> "none", msg |-> NoMsg]
                /\ spc' = "ret"
                /\ UNCHANGED attempt
    /\ UNCHANGED <<other, in_buf, stale, fed, reply, out_buf, wdata,
                   max_header_attempts, cnt, sres, protocol, ser,
                   ws_connected, websocket, response_queue, ws_thread,
                   stop_event, events_set, event_loop, tpc, conn, chan,
                   pending, fpc, call, cur, reqno, nswitch, npush, turns>>

ReadInit ==
    /\ SocketOff
    /\ call \in ReaderCalls
    /\ stale = <<>>
    /\ in_buf = <<>>
    /\ fed = -1
    /\ turns = NoTurns
    /\ reply = <<>>
    /\ attempt = 0
    /\ out_buf = <<>>
    /\ wdata = <<>>
    /\ max_header_attempts = DefaultHeaderAttempts
    /\ cnt = 0
    /\ spc = IF call.op = "getID" THEN "call" ELSE "feed"
    /\ sres = NoPack

ReadNext ==
    \/ ReadRegCall
    \/ WriteSerial
    \/ \E data \in IDReplies \cup {<<>>} : DeviceResponse(data)
    \/ FbNoAttempt
    \/ \E data \in FbFrames : \E stream \in StreamsOf(data) : FbAttempt(data, stream)
    \/ ScanStep
    \/ ReadBody
    \/ GetIDReturn
    \/ FbAfterDecode

ReadSpec == ReadInit /\ [][ReadNext]_vars

\* the error the last attempt made by readAnglesFb ended in
LastError == FbError(sres)

\* C14: readAnglesFb(max_retries = N) makes at most N attempts; when it
\* ends, it has either returned the payload of the feedback frame (type 5,
\* address 83) its last attempt read, or all N attempts have failed and it
\* has raised the error of the last one.
C14_RetryPolicy ==
    call.op = "readAnglesFb" =>
        /\ spc \in {"scan", "body", "done"} => attempt < call.p[1]
        /\ spc = "ret" =>
              \/ /\ result.kind = "return"
                 /\ Len(reply) >= 3
                 /\ reply[1] = 5 /\ reply[2] = ANGLE_FEEDBACK_ID
                 /\ result.val = Payload(reply)
              \/ /\ result.kind \notin {"return", "none"}
                 /\ attempt = call.p[1] - 1
                 /\ result.kind = LastError

\* C16: getID writes exactly the one request AA 77 03 0B 01 11 5C (read,
\* address 11, length 1), and when the arm has answered with a frame of type
\* 0x03 that carries one byte b, getID returns b.
C16_GetID ==
    call.op = "getID" =>
        /\ out_buf \in {<<>>, <<170, 119, 3, 11, 1, 17, 92>>}
        /\ spc \notin {"call", "write"} => out_buf # <<>>
        /\ (spc = "ret" /\ Len(reply) = 4 /\ reply[1] = 3 /\ reply[3] = 1)
              => (result.kind = "return" /\ result.val = reply[4])

\* C16 witness: getID has returned the byte 0xAA the arm sent as its ID.
C16_Witness ==
    /\ call.op = "getID"
    /\ spc = "ret"
    /\ reply = <<3, DEVICE_ID, 1, 170>>
    /\ result.kind = "return"
    /\ result.val = 170

(***************************************************************************)
(* More properties of the socket transport.                                *)
(***************************************************************************)
\* C17: a read whose reply is text that is neither JSON nor a register
\* value list nor a status ends in ProtocolError.
C17_ProtocolError ==
    [][(/\ fpc = "waiting"
        /\ response_queue # <<>>
        /\ Head(response_queue).body = "nonjson"
        /\ fpc' = "idle")
          => result'.kind = "ProtocolError"]_vars

\* C20: every connection failure of a thread while no stop is raised (a
\* failed connect, a read error, the peer closing the connection) puts the
\* thread in the backoff wait, and a thread leaves the backoff wait only
\* when the wait is over.
C20_BackoffBeforeReconnect ==
    /\ [][\A t \in Threads :
            (~StopIsSet /\ ConnFailure(t)) => tpc'[t] = "backoff"]_vars
    /\ [][\A t \in Threads :
            (tpc[t] = "backoff" /\ tpc'[t] # "backoff") => ThBackoffDone(t)]_vars

(***************************************************************************)
(* CRC16_MODBUS against the MODBUS CRC16 defined bit by bit: a 16-bit      *)
(* register, initial value all ones, fed the message bits least            *)
(* significant first, shifted right, polynomial 0xA001 (bits 15, 13, 0).   *)
(***************************************************************************)
\* bit k of the register x is inverted
FlipBit(x, k) ==
    IF (x \div (2 ^ k)) % 2 = 1 THEN x - 2 ^ k ELSE x + 2 ^ k

\* the bits k..7 of byte b go through the register: the bit that falls out
\* of the register is compared with the message bit, and the polynomial is
\* applied when they differ
RECURSIVE RefByte(_, _, _)
RefByte(reg, b, k) ==
    IF k = 8 THEN reg
    ELSE IF (reg + (b \div (2 ^ k))) % 2 = 1
      THEN RefByte(FlipBit(FlipBit(FlipBit(reg \div 2, 0), 13), 15), b, k + 1)
      ELSE RefByte(reg \div 2, b, k + 1)

RECURSIVE RefFold(_, _)
RefFold(reg, data) ==
    IF data = <<>> THEN reg
    ELSE RefFold(RefByte(reg, Head(data), 0), Tail(data))

\* the reference MODBUS CRC16 of data
RefCrc(data) == RefFold(65535, data)

\* the ASCII digits "123456789", whose MODBUS CRC16 is 0x4B37
CheckDigits == <<49, 50, 51, 52, 53, 54, 55, 56, 57>>

\* the lists CRC16_MODBUS and writeSerial are given: every single byte, the
\* short lists, the reference digits and the header of the setAngles frame
CrcInputs ==
    {<<b>> : b \in 0..255}
        \cup SeqsUpTo(PayloadBytes \cup {0, 1}, MaxLen)
        \cup {CheckDigits, <<4, 46, 7, 50, 80, 50, 50, 50, 50, 40>>}

\* self.CRC16_MODBUS(data) is called
CrcApply ==
    /\ spc = "crc"
    /\ sres' = [kind |-> "crc", pack |-> <<CRC16_MODBUS(wdata)>>]
    /\ spc' = "write"
    /\ UNCHANGED <<wsvars, in_buf, stale, fed, reply, attempt, out_buf, wdata,
                   max_header_attempts, cnt, turns>>

CrcInit ==
    /\ SocketOff
    /\ call = NoCall
    /\ stale = <<>>
    /\ in_buf = <<>>
    /\ fed = -1
    /\ turns = NoTurns
    /\ reply = <<>>
    /\ attempt = 0
    /\ out_buf = <<>>
    /\ wdata \in CrcInputs
    /\ max_header_attempts = DefaultHeaderAttempts
    /\ cnt = 0
    /\ spc = "crc"
    /\ sres = NoPack

CrcNext ==
    \/ CrcApply
    \/ WriteSerial

CrcSpec == CrcInit /\ [][CrcNext]_vars

\* C19: CRC16_MODBUS(data) is the reference MODBUS CRC16 of data, lies in
\* 0..65535, is 0x4B37 for the digits "123456789", and writeSerial appends
\* the CRC of sync and data low byte first.
C19_CrcReference ==
    /\ spc # "crc" =>
          /\ sres.pack = <<RefCrc(wdata)>>
          /\ sres.pack[1] \in 0..65535
          /\ wdata = CheckDigits => sres.pack[1] = 19255
    /\ spc = "wire" =>
          LET ref == RefCrc(<<170, 119>> \o wdata)
          IN  out_buf = <<170, 119>> \o wdata \o <<ref % 256, ref \div 256>>

\* C19 witness: the reference digits were summed and framed.
C19_Witness ==
    /\ spc = "wire"
    /\ wdata = CheckDigits
    /\ sres.pack = <<19255>>
    /\ Len(out_buf) = 13

\* C21: the response queue never holds more than one message that has not
\* been handed to a caller.
C21_OneItemSlot == Len(response_queue) <= 1

(***************************************************************************)
(* Two callers (two Python threads of the application) issue reads on one  *)
(* connected instance that is never switched or torn down.                 *)
(***************************************************************************)
\* the second caller: _send_websocket_command, lines 182-194
OtherSendBegin ==
    /\ other.fpc = "idle"
    /\ fpc \in {"idle", "sending", "waiting"}
    /\ ExchangeFree(fpc \in {"sending", "waiting"})
    /\ protocol = PROTOCOL_WEBSOCKET
    /\ reqno < MaxReq
    /\ reqno' = reqno + 1
    /\ IF ~ws_connected \/ websocket = 0
         THEN /\ other' = [other EXCEPT
                             !.result = [NoResult EXCEPT !.kind = "ConnectionError"]]
              /\ UNCHANGED response_queue
         ELSE /\ response_queue' = <<>>
              /\ other' = [fpc |-> "sending",
                           cur |-> [req |-> reqno + 1, verb |-> "read"],
                           result |-> NoResult]
    /\ UNCHANGED <<servars, protocol, ser, ws_connected, websocket, ws_thread,
                   stop_event, events_set, event_loop, tpc, conn, chan,
                   pending, fpc, call, cur, result, nswitch, npush>>

\* the second caller: lines 197-208, the read is on the wire
OtherSendOk ==
    /\ other.fpc = "sending"
    /\ event_loop # 0 /\ tpc[event_loop] # "done"
    /\ websocket # 0 /\ conn[websocket] = "open"
    /\ pending' = pending \cup {[req |-> other.cur.req, conn |-> websocket]}
    /\ other' = [other EXCEPT !.fpc = "waiting"]
    /\ UNCHANGED <<servars, protocol, ser, ws_connected, websocket,
                   response_queue, ws_thread, stop_event, events_set,
                   event_loop, tpc, conn, chan, fpc, call, cur, result, reqno,
                   nswitch, npush>>

\* the second caller: lines 202-205, the send fails
OtherSendFail ==
    /\ other.fpc = "sending"
    /\ event_loop # 0 /\ tpc[event_loop] # "done"
    /\ other' = [fpc |-> "idle", cur |-> NoCmd,
                 result |-> [NoResult EXCEPT !.kind = "ConnectionError"]]
    /\ UNCHANGED <<servars, protocol, ser, ws_connected, websocket,
                   response_queue, ws_thread, stop_event, events_set,
                   event_loop, tpc, conn, chan, pending, fpc, call, cur,
                   result, reqno, nswitch, npush>>

\* the second caller: lines 210-217, a message is in the queue
OtherRecvResponse ==
    /\ other.fpc = "waiting"
    /\ response_queue # <<>>
    /\ response_queue' = Tail(response_queue)
    /\ other' = [fpc |-> "idle", cur |-> NoCmd,
                 result |-> [kind |-> "return",
                             val |-> ReadRegWebsocket(
                                        DecodeResponse(Head(response_queue).body)),
                             msg |-> Head(response_queue)]]
    /\ UNCHANGED <<servars, protocol, ser, ws_connected, websocket, ws_thread,
                   stop_event, events_set, event_loop, tpc, conn, chan,
                   pending, fpc, call, cur, result, reqno, nswitch, npush>>

\* the second caller: lines 218-219, queue.Empty after self.timeout
OtherRecvTimeout ==
    /\ other.fpc = "waiting"
    /\ response_queue = <<>>
    /\ other' = [fpc |-> "idle", cur |-> NoCmd,
                 result |-> [kind |-> "return",
                             val |-> ReadRegWebsocket(TimeoutResponse),
                             msg |-> NoMsg]]
    /\ UNCHANGED <<servars, protocol, ser, ws_connected, websocket,
                   response_queue, ws_thread, stop_event, events_set,
                   event_loop, tpc, conn, chan, pending, fpc, call, cur,
                   result, reqno, nswitch, npush>>

DuoNext ==
    \/ \E t \in Threads : ThStart(t)
    \/ \E t \in Threads : ThLoopCheck(t)
    \/ \E t \in Threads : ThConnectOk(t)
    \/ \E t \in Threads : ThConnectFail(t)
    \/ \E t \in Threads : ThListenCheck(t)
    \/ \E t \in Threads : ThRecvMsg(t)
    \/ \E t \in Threads : ThRecvTimeout(t)
    \/ \E t \in Threads : ThRecvClosed(t)
    \/ \E t \in Threads : ThRecvError(t)
    \/ \E t \in Threads : ThBackoffDone(t)
    \/ \E r \in pending : DeviceReply(r, "data")
    \/ ConnectWaitOk
    \/ ConnectWaitFail
    \/ SendBegin("read")
    \/ SendOk
    \/ SendFail
    \/ RecvResponse
    \/ RecvTimeout
    \/ OtherSendBegin
    \/ OtherSendOk
    \/ OtherSendFail
    \/ OtherRecvResponse
    \/ OtherRecvTimeout

DuoSpec == Init /\ [][DuoNext]_vars

\* C22: nothing serialises the exchanges: while one caller is between its
\* purge and the end of its wait, the other caller can start its own
\* exchange (and purge the queue).
C22_NothingSerialises ==
    /\ (fpc \in {"sending", "waiting"} /\ other.fpc = "idle" /\ reqno < MaxReq)
          => ENABLED OtherSendBegin
    /\ (other.fpc \in {"sending", "waiting"} /\ fpc = "idle" /\ reqno < MaxReq)
          => ENABLED SendBegin("read")

\* C22 witness: the second caller has been handed the reply the device
\* produced for the read the first caller is still waiting for.
C22_Witness ==
    /\ fpc = "waiting"
    /\ other.fpc = "idle"
    /\ other.result.kind = "return"
    /\ other.result.msg.req = cur.req

(***************************************************************************)
(* readSerial's scan for the head, its turns and timed-out reads counted.  *)
(***************************************************************************)
CountNext ==
    \/ \E b \in GarbageBytes : Arrive(b)
    \/ ScanCounted

CountSpec == ScanInit /\ [][CountNext]_vars

\* C24: when the scan has raised and every read it made timed out, it made
\* exactly max_header_attempts reads; when it has raised and no read timed
\* out (garbage only), it made 2 * max_header_attempts turns of the loop.
C24_TimeoutCount ==
    spc = "done" =>
        /\ fed = -1 => turns.empty = max_header_attempts
        /\ turns.empty = 0 => turns.loop = 2 * max_header_attempts

(***************************************************************************)
(* Register operations of a serial instance: readReg(addr, num) on a port  *)
(* whose input buffer may hold a frame that arrived before the call, and   *)
(* EEPROMinit on a port whose write may fail.                              *)
(***************************************************************************)
EEPROM_ID == 11
EEPROM_LOCK_ID == 28

\* the registers read in the model
RegAddrs == {DEVICE_ID, ANGLE_FEEDBACK_ID}

\* frames the input buffer may hold when readReg is called: a feedback
\* push, or the late answer to an earlier read
StaleFrames ==
    {<<5, ANGLE_FEEDBACK_ID, 1, 9>>}
        \cup {<<3, a, n>> \o [i \in 1..n |-> 9] : a \in RegAddrs, n \in 1..MaxLen}

\* what the arm answers to the read of num registers at addr: the block
\* asked for, with any content
RegReplies(addr, num) ==
    {<<3, addr, num>> \o v : v \in [1..num -> PayloadBytes]}

RegCalls ==
    {[op |-> "readReg", p |-> <<addr, num>>, port |-> FALSE] :
        addr \in RegAddrs, num \in 1..MaxLen}
        \cup {[op |-> "EEPROMinit", p |-> <<>>, port |-> FALSE]}

\* readReg -> _readReg_serial, line 295: the request is built
RegCall ==
    /\ spc = "call"
    /\ call.op = "readReg"
    /\ wdata' = ReadRegSerialBuf(call.p[1], call.p[2])
    /\ spc' = "write"
    /\ UNCHANGED <<wsvars, in_buf, stale, fed, reply, attempt, out_buf,
                   max_header_attempts, cnt, turns, sres>>

\* the arm answers the request with the frame of data (none for <<>>), and
\* _readReg_serial calls readSerial (line 298)
RegResponse(data) ==
    /\ spc = "wire"
    /\ call.op = "readReg"
    /\ reply' = data
    /\ in_buf' = in_buf \o (IF data = <<>> THEN <<>> ELSE WriteSerialBytes(data))
    /\ cnt' = 0
    /\ turns' = NoTurns
    /\ spc' = "scan"
    /\ UNCHANGED <<wsvars, stale, fed, attempt, out_buf, wdata,
                   max_header_attempts, sres>>

\* _readReg_serial, lines 298-301: the exception of readSerial propagates,
\* the type is compared, the list after the header is returned
RegReturn ==
    /\ spc = "done"
    /\ call.op = "readReg"
    /\ spc' = "ret"
    /\ result' =
         IF sres.kind # "ok" THEN [kind |-> sres.kind, val |-> "none", msg |-> NoMsg]
         ELSE LET r == StripHeader(sres.pack, 3) IN
              IF r.kind # "ok" THEN [kind |-> r.kind, val |-> "none", msg |-> NoMsg]
              ELSE [kind |-> "return", val |-> r.data, msg |-> NoMsg]
    /\ UNCHANGED <<servars_but_spc, other, protocol, ser, ws_connected, websocket,
                   response_queue, ws_thread, stop_event, events_set,
                   event_loop, tpc, conn, chan, pending, fpc, call, cur,
                   reqno, nswitch, npush>>

\* EEPROMinit, line 686
EepromData == <<0, 0>> \o [i \in 1..7 |-> OFFSET_BIAS]

\* EEPROMinit, lines 687-689, with setLock, line 481: the three writeReg
\* calls, each with the position the function is at after it
EepromWrites ==
    [unlock |-> [addr |-> EEPROM_LOCK_ID, data |-> <<0>>, next |-> "block"],
     block |-> [addr |-> EEPROM_ID, data |-> EepromData, next |-> "lock"],
     lock |-> [addr |-> EEPROM_LOCK_ID, data |-> <<1>>, next |-> "ret"]]

\* EEPROMinit, one of lines 687-689: writeReg -> _writeReg_serial ->
\* writeSerial, the frame goes out on the port
EepromWrite ==
    /\ call.op = "EEPROMinit"
    /\ spc \in DOMAIN EepromWrites
    /\ LET w == EepromWrites[spc]
           buf == WriteRegSerialBuf(w.addr, w.data)
       IN  /\ wdata' = buf
           /\ out_buf' = out_buf \o WriteSerialBytes(buf)
           /\ spc' = w.next
           /\ result' = IF w.next = "ret"
                          THEN [kind |-> "return", val |-> "None", msg |-> NoMsg]
                          ELSE result
    /\ UNCHANGED <<other, in_buf, stale, fed, reply, attempt,
                   max_header_attempts, cnt, turns, sres, protocol, ser,
                   ws_connected, websocket, response_queue, ws_thread,
                   stop_event, events_set, event_loop, tpc, conn, chan,
                   pending, fpc, call, cur, reqno, nswitch, npush>>

\* EEPROMinit, one of lines 687-689: self.ser.write (line 734) raises, the
\* port is gone; nothing in EEPROMinit, setLock or writeReg catches it
EepromWriteError ==
    /\ call.op = "EEPROMinit"
    /\ spc \in DOMAIN EepromWrites
    /\ LET w == EepromWrites[spc]
       IN  wdata' = WriteRegSerialBuf(w.addr, w.data)
    /\ spc' = "ret"
    /\ result' = [kind |-> "SerialException", val |-> "none", msg |-> NoMsg]
    /\ UNCHANGED <<other, in_buf, stale, fed, reply, attempt, out_buf,
                   max_header_attempts, cnt, turns, sres, protocol, ser,
                   ws_connected, websocket, response_queue, ws_thread,
                   stop_event, events_set, event_loop, tpc, conn, chan,
                   pending, fpc, call, cur, reqno, nswitch, npush>>

RegInit ==
    /\ SocketOff
    /\ call \in RegCalls
    /\ stale \in {<<>>} \cup {WriteSerialBytes(f) : f \in StaleFrames}
    /\ in_buf = stale
    /\ fed = -1
    /\ turns = NoTurns
    /\ reply = <<>>
    /\ attempt = 0
    /\ out_buf = <<>>
    /\ wdata = <<>>
    /\ max_header_attempts = DefaultHeaderAttempts
    /\ cnt = 0
    /\ spc = IF call.op = "readReg" THEN "call" ELSE "unlock"
    /\ sres = NoPack

RegNext ==
    \/ RegCall
    \/ WriteSerial
    \/ /\ call.op = "readReg"
       /\ \E data \in RegReplies(call.p[1], call.p[2]) \cup {<<>>} : RegResponse(data)
    \/ ScanStep
    \/ ReadBody
    \/ RegReturn
    \/ EepromWrite
    \/ EepromWriteError

RegSpec == RegInit /\ [][RegNext]_vars

\* the type of the first frame the input buffer held when readReg was called
FirstFrameType == IF stale = <<>> THEN 3 ELSE stale[3]

\* C23: a serial register read whose first received frame is valid and of a
\* type other than 0x03 ends in SerialException; it has written its one
\* request and no other, and the answer that followed the frame is still
\* unread in the input buffer.
C23_FramingError ==
    (call.op = "readReg" /\ spc = "ret" /\ FirstFrameType # 3) =>
        /\ result.kind = "SerialException"
        /\ out_buf = WriteSerialBytes(ReadRegSerialBuf(call.p[1], call.p[2]))
        /\ in_buf = IF reply = <<>> THEN <<>> ELSE WriteSerialBytes(reply)

\* C23 witness: readReg has raised on a feedback push, and the answer of the
\* arm is left in the buffer.
C23_Witness ==
    /\ call.op = "readReg"
    /\ spc = "ret"
    /\ FirstFrameType = 5
    /\ reply # <<>>
    /\ result.kind = "SerialException"
    /\ in_buf = WriteSerialBytes(reply)

\* C27: a serial readReg(addr, num) that returns has returned exactly num
\* bytes, taken from a frame whose address is addr and whose length is num.
C27_ReplyMatchesRequest ==
    (call.op = "readReg" /\ spc = "ret" /\ result.kind = "return") =>
        /\ Len(result.val) = call.p[2]
        /\ sres.pack[2] = call.p[1]
        /\ sres.pack[3] = call.p[2]

\* the frames EEPROMinit has to put on the port, in order
EepromFrames ==
    WriteSerialBytes(WriteRegSerialBuf(EEPROM_LOCK_ID, <<0>>))
        \o WriteSerialBytes(WriteRegSerialBuf(EEPROM_ID, EepromData))
        \o WriteSerialBytes(WriteRegSerialBuf(EEPROM_LOCK_ID, <<1>>))

\* C28: when EEPROMinit returns it has written unlock, the 9-byte block at
\* address 11 and lock, in this order; and whenever it has ended after the
\* unlock went out, by return or by exception, the last write it made is
\* the lock.
C28_LockIsLast ==
    (call.op = "EEPROMinit" /\ spc = "ret") =>
        /\ result.kind = "return" => out_buf = EepromFrames
        /\ out_buf # <<>> => wdata = WriteRegSerialBuf(EEPROM_LOCK_ID, <<1>>)

(***************************************************************************)
(* More properties of switch_protocol and of the teardown.                 *)
(***************************************************************************)
\* this step is the end of a switch_protocol call that raises ValueError
SwitchRaises ==
    /\ result'.kind = "ValueError"
    /\ fpc' = "idle"
    /\ nswitch' # nswitch \/ (fpc = "joining" /\ call.op = "switch")

\* C26: a switch_protocol call that ends in ValueError (unknown protocol,
\* or serial without a port) leaves the protocol as it was, the serial
\* handle as it was, and the socket connection in use not told to stop.
C26_ErrorLeavesInstance ==
    [][SwitchRaises =>
          /\ protocol' = protocol
          /\ ser' = ser
          /\ protocol = PROTOCOL_WEBSOCKET => stop_event \notin events_set']_vars

\* C25: once _disconnect_websocket has returned, and as long as no new
\* connection has been started (the stop event in use is the one that was
\* set), ws_connected is false and websocket is unset.
C25_TeardownFinal ==
    (stop_event \in events_set /\ fpc # "joining") =>
        (~ws_connected /\ websocket = 0)

====
